---------------------------- MODULE Spec2Model ----------------------------
(***************************************************************************)
(* Model of flannelfox/Settings.py: the cache-staleness evaluator, the     *)
(* file cache store, the four source adapters (readLastfmArtists,          *)
(* readTraktTV, readGoodreads, readRSS) and their filter-rule compilation. *)
(*                                                                         *)
(* The module is Python 2 (unicode(), dict.items()[0]); int / int is floor *)
(* division and str.format / comparison follow Python 2.                   *)
(*                                                                         *)
(* Strings that the code transforms (lower, strip, replace, int, float)    *)
(* are sequences of one-character strings, so the transformations are      *)
(* computed.  JSON values are tagged records [t |-> <type>, v |-> <value>].*)
(***************************************************************************)
EXTENDS Integers, Sequences, FiniteSets, TLC

(***************************************************************************)
(* Bounds of the model.                                                    *)
(***************************************************************************)
\* number of successive ingest runs one process performs
MaxRuns == 2
\* number of clock advances in one behaviour
MaxTicks == 2
\* largest clock value / modification time (seconds) drawn for the staleness evaluator
MaxNow == 240
\* largest frequency (minutes) drawn for the staleness evaluator
MaxFreq == 3

(***************************************************************************)
(* Program constants.                                                      *)
(***************************************************************************)
\* frequency=360 default of isCacheUpdateNeeded / updateCacheFile
DefaultFrequency == 360
\* time.time()/60, lastModified/60
SecondsPerMinute == 60
\* r.status_code of a successful request
HttpOK == 200
\* httpResponse = -1 : no response / request exception
HttpNone == -1
\* modificationDate's value for a file whose timestamp cannot be read
NoTimestamp == -1
\* currentPage = 1
FirstPage == 1
\* maxPages = 2
InitialMaxPages == 2

(***************************************************************************)
(* Python values.                                                          *)
(***************************************************************************)
PyTrue == "True"
PyFalse == "False"
PyNone == "None"

Null == [t |-> "null"]
Str(s) == [t |-> "str", v |-> s]
Num(n) == [t |-> "num", v |-> n]
List(q) == [t |-> "list", v |-> q]
IsNull(x) == x.t = "null"
IsStr(x) == x.t = "str"

(***************************************************************************)
(* str.lower(), str.strip(), str.replace(u" & ", u" and ") on character    *)
(* sequences.                                                              *)
(***************************************************************************)
LowerChar(c) ==
    CASE c = "A" -> "a" [] c = "B" -> "b" [] c = "C" -> "c" [] c = "M" -> "m"
      [] c = "N" -> "n" [] c = "R" -> "r" [] c = "T" -> "t" [] c = "V" -> "v"
      [] OTHER -> c

Lower(s) == [i \in 1..Len(s) |-> LowerChar(s[i])]

RECURSIVE LStrip(_)
LStrip(s) == IF s # <<>> /\ Head(s) = " " THEN LStrip(Tail(s)) ELSE s

RECURSIVE RStrip(_)
RStrip(s) ==
    IF s # <<>> /\ s[Len(s)] = " " THEN RStrip(SubSeq(s, 1, Len(s) - 1)) ELSE s

Strip(s) == RStrip(LStrip(s))

Amp == <<" ", "&", " ">>
And == <<" ", "a", "n", "d", " ">>

\* left-to-right, non-overlapping replacement
RECURSIVE ReplaceAmp(_)
ReplaceAmp(s) ==
    IF Len(s) < Len(Amp) THEN s
    ELSE IF SubSeq(s, 1, Len(Amp)) = Amp
         THEN And \o ReplaceAmp(SubSeq(s, Len(Amp) + 1, Len(s)))
         ELSE <<Head(s)>> \o ReplaceAmp(Tail(s))

\* a normalisation that forgets the lower-casing
NormalizeNoLower(s) == ReplaceAmp(Strip(s))

\* artist.lower().strip().replace(u" & ", u" and ")
Normalize(s) == ReplaceAmp(Strip(Lower(s)))

\* unicode(x.lower().strip()) of list_name and type
CleanName(s) == Strip(Lower(s))

(***************************************************************************)
(* modificationDate and isCacheUpdateNeeded.                               *)
(***************************************************************************)
\* math.ceil(t / 60) for a whole number of seconds t >= 0
CeilMinutes(t) == (t + SecondsPerMinute - 1) \div SecondsPerMinute

\* lastModified / 60 : int / int, floor division
FloorMinutes(t) == t \div SecondsPerMinute

\* math.ceil(time.time()/60 - lastModified/60)
ElapsedMinutes(t, lastModified) == CeilMinutes(t) - FloorMinutes(lastModified)

\* a staleness test that forgets the missing-file case and uses > for >=
isCacheUpdateNeededStrict(lastModified, t, frequency, fault) ==
    IF fault THEN PyNone
    ELSE IF ElapsedMinutes(t, lastModified) > frequency THEN PyTrue ELSE PyFalse

\* lastModified is modificationDate(cacheFilename); fault: an exception is
\* raised inside the try block after the timestamp was read, the handler
\* logs and the function ends without a return statement
isCacheUpdateNeeded(lastModified, t, frequency, fault) ==
    IF lastModified = NoTimestamp THEN PyTrue
    ELSE IF fault THEN PyNone
    ELSE IF ElapsedMinutes(t, lastModified) >= frequency THEN PyTrue ELSE PyFalse

\* `not isCacheUpdateNeeded(...)` as the callers evaluate it
Not(v) == v # PyTrue

(***************************************************************************)
(* int(...) and float(...) of a stripped string.                           *)
(***************************************************************************)
Digits == <<"0", "1", "2", "3", "4", "5", "6", "7", "8", "9">>
IsDigit(c) == \E d \in 1..Len(Digits) : Digits[d] = c
DigitVal(c) == (CHOOSE d \in 1..Len(Digits) : Digits[d] = c) - 1

RECURSIVE DigitsVal(_)
DigitsVal(s) ==
    IF s = <<>> THEN 0 ELSE DigitsVal(SubSeq(s, 1, Len(s) - 1)) * 10 + DigitVal(s[Len(s)])

AllDigits(s) == \A i \in 1..Len(s) : IsDigit(s[i])

\* int(s): ValueError unless s is a non-empty run of digits
ParseInt(s) ==
    IF s # <<>> /\ AllDigits(s) THEN [ok |-> TRUE, v |-> DigitsVal(s)]
    ELSE [ok |-> FALSE, v |-> 0]

RECURSIVE DropZeros(_, _)
DropZeros(n, e) == IF e > 0 /\ n % 10 = 0 THEN DropZeros(n \div 10, e - 1) ELSE [n |-> n, e |-> e]

\* float(s) for digits with at most one ".": the value is n / 10^e, kept as
\* the reduced pair (n, e); ValueError otherwise
ParseFloat(s) ==
    LET dots == {i \in 1..Len(s) : s[i] = "."}
    IN  IF Cardinality(dots) > 1 THEN [ok |-> FALSE, v |-> [n |-> 0, e |-> 0]]
        ELSE LET d == IF dots = {} THEN Len(s) + 1 ELSE CHOOSE i \in dots : TRUE
                 ip == SubSeq(s, 1, d - 1)
                 fp == SubSeq(s, d + 1, Len(s))
             IN  IF ip \o fp # <<>> /\ AllDigits(ip \o fp)
                 THEN [ok |-> TRUE, v |-> DropZeros(DigitsVal(ip \o fp), Len(fp))]
                 ELSE [ok |-> FALSE, v |-> [n |-> 0, e |-> 0]]

(***************************************************************************)
(* Minor feeds (lines 272-283, and the same block in each adapter).        *)
(* A minor feed is a record of JSON values url, minTime, minRatio,         *)
(* comparison; Null is an absent key.  The result is                       *)
(*   "ok"    the parsed list,                                              *)
(*   "drop"  ValueError / KeyError / TypeError: the except clause          *)
(*           `continue`s to the next record,                               *)
(*   "abort" AttributeError (.strip() / .get() of a non-string): not in    *)
(*           the except tuple, it reaches the per-file handler.            *)
(***************************************************************************)
Default(x, d) == IF IsNull(x) THEN Str(d) ELSE x

ParseMinorFeed(mf) ==
    IF mf.t # "dict" THEN [st |-> "abort"]
    ELSE LET url == Default(mf.url, <<>>)
             minTime == Default(mf.minTime, <<"0">>)
             minRatio == Default(mf.minRatio, <<"0", ".", "0">>)
             comparison == Default(mf.comparison, <<"o", "r">>)
         IN  IF ~IsStr(url) THEN [st |-> "abort"]
             ELSE IF ~IsStr(minTime) THEN [st |-> "abort"]
             ELSE IF ~ParseInt(Strip(minTime.v)).ok THEN [st |-> "drop"]
             ELSE IF ~IsStr(minRatio) THEN [st |-> "abort"]
             ELSE IF ~ParseFloat(Strip(minRatio.v)).ok THEN [st |-> "drop"]
             ELSE IF ~IsStr(comparison) THEN [st |-> "abort"]
             ELSE [st |-> "ok",
                   v |-> [url |-> Strip(url.v),
                          minTime |-> ParseInt(Strip(minTime.v)).v,
                          minRatio |-> ParseFloat(Strip(minRatio.v)).v,
                          comparison |-> Strip(comparison.v)]]

\* a parser that also catches AttributeError (drops the record only)
RECURSIVE ParseMinorFeedsCatchAll(_)
ParseMinorFeedsCatchAll(q) ==
    IF q = <<>> THEN [st |-> "ok", v |-> <<>>]
    ELSE LET h == ParseMinorFeed(Head(q))
         IN  IF h.st # "ok" THEN [st |-> "drop"]
             ELSE LET r == ParseMinorFeedsCatchAll(Tail(q))
                  IN  IF r.st # "ok" THEN r ELSE [st |-> "ok", v |-> <<h.v>> \o r.v]

\* a parser that keeps the minor feeds parsed before the first bad one
RECURSIVE ParseMinorFeedsPrefix(_)
ParseMinorFeedsPrefix(q) ==
    IF q = <<>> THEN [st |-> "ok", v |-> <<>>]
    ELSE LET h == ParseMinorFeed(Head(q))
         IN  IF h.st # "ok" THEN [st |-> "ok", v |-> <<>>]
             ELSE LET r == ParseMinorFeedsPrefix(Tail(q))
                  IN  [st |-> "ok", v |-> <<h.v>> \o r.v]

\* for minorFeed in minorFeeds: ... minorFeeds.append(...)
RECURSIVE ParseMinorFeeds(_)
ParseMinorFeeds(q) ==
    IF q = <<>> THEN [st |-> "ok", v |-> <<>>]
    ELSE LET h == ParseMinorFeed(Head(q))
         IN  IF h.st # "ok" THEN [st |-> h.st]
             ELSE LET r == ParseMinorFeeds(Tail(q))
                  IN  IF r.st # "ok" THEN r ELSE [st |-> "ok", v |-> <<h.v>> \o r.v]

(***************************************************************************)
(* Filter rule compilation (lines 339-369, 535-592, 775-807, 933-956).     *)
(* A filter template is [t |-> "dict", exclude, include]; exclude and      *)
(* include are sequences of one-pair dicts, a dict being the sequence of   *)
(* its items <<key, val>>.  A result is [ok |-> FALSE] when an exception   *)
(* reaches the `except Exception` of the block (the record is dropped).    *)
(***************************************************************************)
Rule(key, val, exclude) == [key |-> key, val |-> val, exclude |-> exclude]

Failed == [ok |-> FALSE, v |-> <<>>]
Done(v) == [ok |-> TRUE, v |-> v]

\* key, val = pair.items()[0] ; ruleList.append({key, val, exclude})
RECURSIVE PairRules(_, _)
PairRules(pairs, exclude) ==
    IF pairs = <<>> THEN Done(<<>>)
    ELSE IF Head(pairs) = <<>> THEN Failed
    ELSE LET r == PairRules(Tail(pairs), exclude)
             kv == Head(pairs)[1]
         IN  IF ~r.ok THEN Failed
             ELSE Done(<<Rule(kv[1], kv[2], exclude)>> \o r.v)

\* template rules with the include pairs ahead of the exclude pairs
TemplateRulesIncludeFirst(filterItem) ==
    IF filterItem.t # "dict" THEN Failed
    ELSE LET ex == PairRules(filterItem.exclude, TRUE)
             inc == PairRules(filterItem.include, FALSE)
         IN  IF ex.ok /\ inc.ok THEN Done(inc.v \o ex.v) ELSE Failed

\* the two loops over filterItem.get("exclude", []) and .get("include", [])
TemplateRules(filterItem) ==
    IF filterItem.t # "dict" THEN Failed
    ELSE LET ex == PairRules(filterItem.exclude, TRUE)
             inc == PairRules(filterItem.include, FALSE)
         IN  IF ex.ok /\ inc.ok THEN Done(ex.v \o inc.v) ELSE Failed

\* readLastfmArtists: one rule list for an artist name of the list
LastfmRuleList(filterItem, artist) ==
    LET t == TemplateRules(filterItem)
    IN  IF ~IsStr(artist) \/ ~t.ok THEN Failed
        ELSE Done(<<<<Rule("artist", Str(Normalize(artist.v)), FALSE)>> \o t.v>>)

\* if traktList.get("like", False)
TitleMatchMethod(like) == IF like THEN "titleLike" ELSE "title"

\* readTraktTV: the rule lists (none or one) for an item of the list.  An
\* an item that is a number makes `"show" not in item` raise TypeError.
\* item is [kind, title, year]: kind "show" / "movie" names the sub-object
\* the item holds; title Null is a sub-object without "title" (KeyError).
\* year is None when the record starts and is assigned by the movie branch
\* before every use, so it is a number only for a movie with a year.
TraktRuleList(filterItem, item, feedType, like) ==
    IF item.t # "dict" THEN Failed
    ELSE IF item.kind # "show" /\ feedType = <<"t", "v">> THEN Done(<<>>)
    ELSE IF item.kind # "movie" /\ feedType = <<"m", "o", "v", "i", "e">> THEN Done(<<>>)
    ELSE IF ~(feedType \in {<<"t", "v">>, <<"m", "o", "v", "i", "e">>}) THEN Done(<<>>)
    ELSE IF ~IsStr(item.title) THEN Failed
    ELSE LET t == TemplateRules(filterItem)
             title == Rule(TitleMatchMethod(like), Str(Normalize(item.title.v)), FALSE)
             year == IF item.kind = "movie" /\ ~IsNull(item.year)
                     THEN <<Rule("year", item.year, FALSE)>> ELSE <<>>
         IN  IF ~t.ok THEN Failed ELSE Done(<<<<title>> \o year \o t.v>>)

\* readGoodreads: `title` is None when the record starts and is never
\* assigned; the rule is bound to None whatever the author is
GoodreadsRuleList(filterItem, item, like) ==
    LET t == TemplateRules(filterItem)
    IN  IF ~t.ok THEN Failed
        ELSE Done(<<<<Rule(TitleMatchMethod(like), Null, FALSE)>> \o t.v>>)

\* one rule list per subject for one template
SubjectRuleLists(adapter, filterItem, item, feedType, like) ==
    CASE adapter = "lastfm" -> LastfmRuleList(filterItem, item)
      [] adapter = "trakt" -> TraktRuleList(filterItem, item, feedType, like)
      [] adapter = "goodreads" -> GoodreadsRuleList(filterItem, item, like)

\* the inner loop: for item in subjects
RECURSIVE SubjectLoop(_, _, _, _, _)
SubjectLoop(adapter, filterItem, items, feedType, like) ==
    IF items = <<>> THEN Done(<<>>)
    ELSE LET h == SubjectRuleLists(adapter, filterItem, Head(items), feedType, like)
         IN  IF ~h.ok THEN Failed
             ELSE LET r == SubjectLoop(adapter, filterItem, Tail(items), feedType, like)
                  IN  IF ~r.ok THEN Failed ELSE Done(h.v \o r.v)

\* a compiler that stops after the first template
CompileFirstTemplateOnly(adapter, filters, items, feedType, like) ==
    IF filters = <<>> THEN Done(<<>>)
    ELSE IF adapter = "rss" THEN
         LET t == TemplateRules(Head(filters)) IN IF ~t.ok THEN Failed ELSE Done(<<t.v>>)
    ELSE SubjectLoop(adapter, Head(filters), items, feedType, like)

\* the outer loop: for filterItem in filters (readRSS has no inner loop:
\* one rule list per template, without a subject rule)
RECURSIVE Compile(_, _, _, _, _)
Compile(adapter, filters, items, feedType, like) ==
    IF filters = <<>> THEN Done(<<>>)
    ELSE LET h == IF adapter = "rss"
                  THEN LET t == TemplateRules(Head(filters))
                       IN  IF ~t.ok THEN Failed ELSE Done(<<t.v>>)
                  ELSE SubjectLoop(adapter, Head(filters), items, feedType, like)
         IN  IF ~h.ok THEN Failed
             ELSE LET r == Compile(adapter, Tail(filters), items, feedType, like)
                  IN  IF ~r.ok THEN Failed ELSE Done(h.v \o r.v)

(***************************************************************************)
(* Descriptor records, descriptor files and configurations the model       *)
(* draws its inputs from.                                                  *)
(***************************************************************************)
MinorFeed(url, minTime, minRatio, comparison) ==
    [t |-> "dict", url |-> url, minTime |-> minTime, minRatio |-> minRatio,
     comparison |-> comparison]

Template(exclude, include) == [t |-> "dict", exclude |-> exclude, include |-> include]

Descriptor(username, list_name, type, minorFeeds, filters, like) ==
    [t |-> "dict", username |-> username, api_key |-> Str(<<"k">>),
     list_name |-> list_name, type |-> type,
     feedDestination |-> Str(<<" ", "d">>), minorFeeds |-> minorFeeds,
     filters |-> filters, like |-> like]

mfGood == MinorFeed(Str(<<" ", "u">>), Str(<<"1", "2">>), Str(<<"1", ".", "5", "0">>), Null)
mfDefaults == MinorFeed(Null, Null, Null, Null)
\* int("x") : ValueError
mfBadValue == MinorFeed(Str(<<"u">>), Str(<<"x">>), Null, Null)
\* (5).strip() : AttributeError
mfBadType == MinorFeed(Str(<<"u">>), Num(5), Null, Null)

pairHd == <<<<"quality", Str(<<"h", "d">>)>>>>
pairCam == <<<<"source", Str(<<"c">>)>>>>
pairNew == <<<<"codec", Str(<<"n">>)>>>>
tPlain == Template(<<>>, <<>>)
tBoth == Template(<<pairCam, pairNew>>, <<pairHd>>)
\* {}.items()[0] : IndexError
tBadRule == Template(<<<<>>>>, <<>>)

rTv == Descriptor(Str(<<"u", "1">>), Str(<<"R", " ">>), Str(<<"T", "V">>),
                  List(<<mfGood, mfDefaults>>), <<tBoth, tPlain>>, FALSE)
rMovie == Descriptor(Str(<<"u", "2">>), Str(<<"m">>), Str(<<"m", "o", "v", "i", "e">>),
                     List(<<>>), <<tBoth>>, TRUE)
\* the feed name of rTv under another user
rSame == Descriptor(Str(<<"u", "2">>), Str(<<"r">>), Str(<<"t", "v">>),
                    List(<<>>), <<tPlain>>, FALSE)
\* the list_name of rTv under another user
rTwin == Descriptor(Str(<<"u", "2">>), Str(<<"R", " ">>), Str(<<"t", "v">>),
                    List(<<>>), <<tPlain>>, FALSE)
rNoFilters == Descriptor(Str(<<"u", "1">>), Str(<<"n">>), Str(<<"t", "v">>),
                         List(<<mfGood>>), <<>>, FALSE)
rNoUser == Descriptor(Null, Str(<<"a">>), Str(<<"t", "v">>), List(<<>>), <<tPlain>>, FALSE)
rNoName == Descriptor(Str(<<"u", "1">>), Str(<<" ">>), Str(<<"t", "v">>),
                      List(<<>>), <<tPlain>>, FALSE)
rBadMinorValue == Descriptor(Str(<<"u", "1">>), Str(<<"b">>), Str(<<"t", "v">>),
                             List(<<mfGood, mfBadValue>>), <<tPlain>>, FALSE)
rBadMinorType == Descriptor(Str(<<"u", "1">>), Str(<<"c">>), Str(<<"t", "v">>),
                            List(<<mfBadType>>), <<tPlain>>, FALSE)
rBadRule == Descriptor(Str(<<"u", "1">>), Str(<<"v">>), Str(<<"t", "v">>),
                       List(<<>>), <<tPlain, tBadRule>>, FALSE)
\* a record without feedDestination
rNoDest == [Descriptor(Str(<<"u", "1">>), Str(<<"d">>), Str(<<"t", "v">>),
                       List(<<mfGood>>), <<tPlain>>, FALSE)
              EXCEPT !.feedDestination = Null]
\* a JSON string where a mapping is expected
rNotMapping == Str(<<"x">>)

\* json: the name ends with ".json"; parses: json.load succeeds
File(name, json, parses, records) ==
    [name |-> name, json |-> json, parses |-> parses, records |-> records]

Configs ==
    { <<>>,
      <<File("a.json", TRUE, TRUE, <<rTv, rMovie>>)>>,
      <<File("a.json", TRUE, TRUE, <<rBadMinorType, rTv>>),
        File("b.json", TRUE, TRUE, <<rMovie>>)>>,
      <<File("a.json", TRUE, TRUE, <<rNotMapping, rMovie>>)>>,
      <<File("a.json", TRUE, TRUE, <<rBadMinorValue, rBadRule, rTv>>)>>,
      <<File("a.json", TRUE, TRUE, <<rTv>>), File("b.json", TRUE, TRUE, <<rSame>>)>>,
      <<File("a.json", TRUE, TRUE, <<rTv, rSame>>)>>,
      <<File("a.json", TRUE, TRUE, <<rTv, rTwin>>)>>,
      <<File("a.json", TRUE, TRUE, <<rNoUser, rNoName, rNoFilters>>)>>,
      <<File("a.json", TRUE, TRUE, <<rTv, rNoDest, rMovie>>)>>,
      <<File("notes.txt", FALSE, TRUE, <<rTv>>), File("a.json", TRUE, FALSE, <<rTv>>),
        File("b.json", TRUE, TRUE, <<rMovie>>)>> }

\* the configurations of the two-process specification
ConcConfigs == { <<File("a.json", TRUE, TRUE, <<rMovie>>)>> }

Adapters == {"lastfm", "trakt", "goodreads", "rss"}

(***************************************************************************)
(* What the external services answer and what a cache file may hold.       *)
(***************************************************************************)
nBa == <<"B", "a">>
nAmp == <<" ", "A", " ", "&", " ", "b">>
nC == <<"c", " ", "&", " ", "&", " ", "C">>

\* trakt list items
Show(title) == [t |-> "dict", kind |-> "show", title |-> title, year |-> Null]
Movie(title, year) == [t |-> "dict", kind |-> "movie", title |-> title, year |-> year]

\* the lists a service may hold for a user: lastfm artist names, trakt
\* items, goodreads author names (Null: an <author> without a usable name)
ServiceLists(adapter) ==
    CASE adapter = "lastfm" ->
            { <<Str(nBa), Str(nAmp), Str(nC)>>, <<Str(nC)>> }
      [] adapter = "trakt" ->
            { <<Show(Str(nBa)), Movie(Str(nAmp), Num(1999)), Movie(Str(nC), Null)>>,
              <<Show(Str(nC))>> }
      [] adapter = "goodreads" -> { <<Str(nBa), Null, Str(nAmp)>>, <<Str(nC)>> }
      [] OTHER -> {}

\* json.dumps(list): the text of the file, as a sequence of tokens (the
\* characters of a string between quotes, the digits of a number, null,
\* and for a tracking item its type, title and year between braces)
RECURSIVE EncodeNumber(_)
EncodeNumber(n) ==
    IF n < 10 THEN <<Digits[n + 1]>>
    ELSE EncodeNumber(n \div 10) \o <<Digits[(n % 10) + 1]>>

EncodeScalar(x) ==
    CASE x.t = "str" -> <<"\"">> \o x.v \o <<"\"">>
      [] x.t = "num" -> EncodeNumber(x.v)
      [] OTHER -> <<"null">>

EncodeItem(x) ==
    IF x.t = "dict"
    THEN <<"{", x.kind, ":">> \o EncodeScalar(x.title) \o <<",">>
           \o EncodeScalar(x.year) \o <<"}">>
    ELSE EncodeScalar(x)

RECURSIVE EncodeItems(_)
EncodeItems(q) ==
    IF q = <<>> THEN <<>>
    ELSE IF Len(q) = 1 THEN EncodeItem(q[1])
    ELSE EncodeItem(Head(q)) \o <<",">> \o EncodeItems(Tail(q))

Encode(q) == <<"[">> \o EncodeItems(q) \o <<"]">>

\* json.load(cache): the list the text of the file stands for
RECURSIVE CloseQuote(_, _)
CloseQuote(toks, i) == IF toks[i] = "\"" THEN i ELSE CloseQuote(toks, i + 1)

RECURSIVE NumEnd(_, _)
NumEnd(toks, i) ==
    IF i <= Len(toks) /\ IsDigit(toks[i]) THEN NumEnd(toks, i + 1) ELSE i

DecodeScalar(toks, i) ==
    IF toks[i] = "\""
    THEN LET j == CloseQuote(toks, i + 1)
         IN  [v |-> Str(SubSeq(toks, i + 1, j - 1)), next |-> j + 1]
    ELSE IF toks[i] = "null" THEN [v |-> Null, next |-> i + 1]
    ELSE LET j == NumEnd(toks, i)
         IN  [v |-> Num(DigitsVal(SubSeq(toks, i, j - 1))), next |-> j]

DecodeItem(toks, i) ==
    IF toks[i] = "{"
    THEN LET title == DecodeScalar(toks, i + 3)
             year == DecodeScalar(toks, title.next + 1)
         IN  [v |-> [t |-> "dict", kind |-> toks[i + 1], title |-> title.v,
                     year |-> year.v],
              next |-> year.next + 1]
    ELSE DecodeScalar(toks, i)

RECURSIVE DecodeItems(_, _)
DecodeItems(toks, i) ==
    IF toks[i] = "]" THEN <<>>
    ELSE LET item == DecodeItem(toks, i)
         IN  <<item.v>> \o DecodeItems(toks, IF toks[item.next] = "," THEN item.next + 1
                                                 ELSE item.next)

Decode(toks) == DecodeItems(toks, 2)

\* json.dumps / json.load of a cached list; a file that is not JSON fails
\* to load
Dumps(v) == [fmt |-> "json", v |-> Encode(v)]
Garbage == [fmt |-> "garbage", v |-> <<>>]
Loads(d) == IF d.fmt = "json" THEN Done(Decode(d.v)) ELSE Failed

(***************************************************************************)
(* State.                                                                  *)
(***************************************************************************)
VARIABLES
    adapter,     \* which of the four ingest functions the runs call
    configDir,   \* whether os.listdir(configFolder) succeeds
    config,      \* the descriptor files of its config directory, in listdir order
    cacheDir,    \* whether the adapter's cache directory exists
    cache,       \* the cache files: path -> [data, mtime]; a path is <<name, configFile>>
    now,         \* time.time(), whole seconds
    ticks,       \* clock advances so far
    active,      \* the processes that run the adapter
    pc,          \* per process: where its run stands
    fileIdx,     \* per process: index of the config file being read
    recIdx,      \* per process: index of the record being read
    loc,         \* per process: the local variables of the record iteration
    majorFeeds,  \* per process: the mapping being built
    runs,        \* per process: number of finished runs
    budget,      \* number of runs a process performs in this behaviour
    last,        \* per process: history of the record iteration that ended last (0 or 1 entries)
    acc,         \* per process: what the current run did so far
    runStart,    \* per process: the cache files when the current run started
    history,     \* per process: summaries of the finished runs
    evalIn,      \* staleness evaluator on its own: the arguments drawn
    evalOut      \* staleness evaluator on its own: the value returned

vars == <<adapter, configDir, config, cacheDir, cache, now, ticks, active, pc, fileIdx, recIdx,
          loc, majorFeeds, runs, budget, last, acc, runStart, history, evalIn, evalOut>>

Procs == {1, 2}

\* a status code other than 200
HttpError == 500

\* one clock advance: the default frequency, in seconds
TickSeconds == DefaultFrequency * SecondsPerMinute

\* the local variables at the top of a record iteration (lines 229-239,
\* 434-443); stale .. before are history variables (requests: the pages
\* asked for, stated: the totalPages of each 200 response, dirRace: the
\* cache directory appeared between the existence test and os.makedirs,
\* cacheBy: the writer of the cache file that was read)
InitLoc ==
    [path |-> <<>>, feedName |-> <<>>, feedType |-> <<>>, feedDestination |-> <<>>,
     minorFeeds |-> <<>>, useCache |-> FALSE, httpResponse |-> HttpNone,
     currentPage |-> FirstPage, maxPages |-> InitialMaxPages, replies |-> <<>>,
     results |-> <<>>,
     stale |-> "unchecked", fresh |-> FALSE, fault |-> FALSE, requests |-> <<>>,
     stated |-> <<>>, dirRace |-> FALSE, cacheBy |-> <<>>, fetched |-> "none", read |-> "none", wrote |-> "none", before |-> <<>>]

EmptyMap == [k \in {} |-> 0]

\* the cache file at a path, as a sequence of length 0 (no file) or 1
Snapshot(path) == IF path \in DOMAIN cache THEN <<cache[path]>> ELSE <<>>

\* modificationDate(filename): -1 when os.path.getmtime raises
modificationDate(path) == IF path \in DOMAIN cache THEN cache[path].mtime ELSE NoTimestamp

CurFile(p) == config[fileIdx[p]]
CurRec(p) == CurFile(p).records[recIdx[p]]

\* a key that leaves the config file out for every adapter
FeedKeyBare(a, configFile, feedName) == <<feedName>>

\* majorFeeds[feedName] (lastfm) / majorFeeds[configFile+'.'+feedName]
FeedKey(a, configFile, feedName) ==
    IF a = "lastfm" THEN <<feedName>> ELSE <<configFile, feedName>>

\* the cache file name: lastfm joins the raw list_name, the others feedName
CachePath(a, rec, configFile) ==
    IF a = "lastfm" THEN <<rec.list_name.v, configFile>>
    ELSE <<CleanName(rec.list_name.v), configFile>>

\* a basic-parts test that does not look at username
HasBasicPartsNoUser(a, rec) ==
    /\ a # "rss" => ~IsNull(rec.api_key) /\ ~IsNull(rec.type)
    /\ ~IsNull(rec.list_name)
    /\ ~IsNull(rec.feedDestination)
    /\ ~IsNull(rec.minorFeeds)

\* the "basic parts" test: username, api_key, list_name, type,
\* feedDestination, minorFeeds (readRSS: list_name, feedDestination, minorFeeds)
HasBasicParts(a, rec) ==
    /\ a # "rss" => ~IsNull(rec.username) /\ ~IsNull(rec.api_key) /\ ~IsNull(rec.type)
    /\ ~IsNull(rec.list_name)
    /\ ~IsNull(rec.feedDestination)
    /\ ~IsNull(rec.minorFeeds)

\* the record of one finished record iteration
Entry(p, l, outcome, feed) ==
    [file |-> fileIdx[p], rec |-> recIdx[p], outcome |-> outcome, path |-> l.path,
     stale |-> l.stale, fresh |-> l.fresh, fault |-> l.fault, requests |-> l.requests,
     stated |-> l.stated, dirRace |-> l.dirRace, cacheBy |-> l.cacheBy,
     fetched |-> l.fetched, read |-> l.read, wrote |-> l.wrote,
     subjects |-> l.results, before |-> l.before, after |-> Snapshot(l.path),
     feed |-> feed]

\* what a run did so far: the records whose iteration ended, whether a
\* request was made, whether every request made failed (exception or
\* status), whether every record was fetched and written to the cache
InitAcc == [processed |-> {}, entries |-> 0, noRequest |-> TRUE, allFailed |-> TRUE,
            allStored |-> TRUE]

Account(a, e) ==
    [processed |-> a.processed \cup {<<e.file, e.rec>>},
     entries |-> a.entries + (IF e.outcome = "entry" THEN 1 ELSE 0),
     noRequest |-> a.noRequest /\ e.requests = <<>>,
     allFailed |-> a.allFailed /\ e.fetched \in {"none", "failed"},
     allStored |-> a.allStored /\ e.fetched = "ok" /\ e.wrote = "written"]

\* the end of a record iteration with history entry e
EndWith(p, e) ==
    /\ last' = [last EXCEPT ![p] = <<e>>]
    /\ acc' = [acc EXCEPT ![p] = Account(@, e)]
    /\ loc' = [loc EXCEPT ![p] = InitLoc]
    /\ pc' = [pc EXCEPT ![p] = IF e.outcome = "abort" THEN "files" ELSE "record"]

\* the end of a record iteration: "entry" (inserted), "drop" (`continue`)
\* or "abort" (an exception reached the per-file handler)
EndRecord(p, l, outcome, feed) == EndWith(p, Entry(p, l, outcome, feed))

(***************************************************************************)
(* The ingest run, one action per step that touches the file system, the   *)
(* network or ends a loop iteration.                                       *)
(***************************************************************************)
\* majorFeeds = {} ; os.listdir(configFolder).  When the listing raises,
\* the outer handler of the three fetching adapters passes and the function
\* returns; readRSS lists outside its try and the OSError reaches the caller.
StartRun(p) ==
    /\ p \in active
    /\ pc[p] = "idle"
    /\ runs[p] < budget
    /\ pc' = [pc EXCEPT ![p] = IF configDir THEN "files"
                               ELSE IF adapter = "rss" THEN "raised" ELSE "return"]
    /\ fileIdx' = [fileIdx EXCEPT ![p] = 0]
    /\ recIdx' = [recIdx EXCEPT ![p] = 0]
    /\ majorFeeds' = [majorFeeds EXCEPT ![p] = EmptyMap]
    /\ last' = [last EXCEPT ![p] = <<>>]
    /\ acc' = [acc EXCEPT ![p] = InitAcc]
    /\ runStart' = [runStart EXCEPT ![p] = cache]
    /\ UNCHANGED <<adapter, configDir, config, cacheDir, cache, now, ticks, active, loc, runs, budget,
                   history, evalIn, evalOut>>

\* for configFile in os.listdir(configFolder): skip non-json files, skip
\* files json.load fails on
NextFile(p) ==
    /\ p \in active
    /\ pc[p] = "files"
    /\ IF fileIdx[p] = Len(config)
       THEN /\ pc' = [pc EXCEPT ![p] = "return"]
            /\ UNCHANGED <<fileIdx, recIdx>>
       ELSE LET f == config[fileIdx[p] + 1]
            IN  /\ fileIdx' = [fileIdx EXCEPT ![p] = @ + 1]
                /\ recIdx' = [recIdx EXCEPT ![p] = 0]
                /\ pc' = [pc EXCEPT ![p] = IF f.json /\ f.parses THEN "record" ELSE "files"]
    /\ UNCHANGED <<adapter, configDir, config, cacheDir, cache, now, ticks, active, loc,
                   majorFeeds, runs, budget, last, acc, runStart, history, evalIn, evalOut>>

\* the next record of the file: the basic-parts test, the cache file name
\* and os.path.exists(os.path.dirname(cacheFileName)).  readTraktTV and
\* readGoodreads derive feedName first; readRSS has no cache.
BeginRecord(p) ==
    /\ p \in active
    /\ pc[p] = "record"
    /\ IF recIdx[p] = Len(CurFile(p).records)
       THEN /\ pc' = [pc EXCEPT ![p] = "files"]
            /\ UNCHANGED <<recIdx, loc, last, acc>>
       ELSE LET rec == CurFile(p).records[recIdx[p] + 1]
                l == InitLoc
            IN  /\ recIdx' = [recIdx EXCEPT ![p] = @ + 1]
                /\ IF rec.t # "dict"
                   THEN EndWith(p, [Entry(p, l, "abort", <<>>) EXCEPT !.rec = recIdx[p] + 1])
                   ELSE IF \/ ~HasBasicParts(adapter, rec)
                           \/ adapter \in {"trakt", "goodreads"}
                                /\ CleanName(rec.list_name.v) = <<>>
                   THEN EndWith(p, [Entry(p, l, "drop", <<>>) EXCEPT !.rec = recIdx[p] + 1])
                   ELSE IF adapter = "rss"
                   THEN /\ pc' = [pc EXCEPT ![p] = "parse"]
                        /\ UNCHANGED <<loc, last, acc>>
                   ELSE LET path == CachePath(adapter, rec, CurFile(p).name)
                        IN  /\ loc' = [loc EXCEPT ![p] =
                                         [l EXCEPT !.path = path, !.before = Snapshot(path)]]
                            /\ pc' = [pc EXCEPT ![p] = IF cacheDir THEN "parse" ELSE "mkdir"]
                            /\ UNCHANGED <<last, acc>>
    /\ UNCHANGED <<adapter, configDir, config, cacheDir, cache, now, ticks, active, fileIdx,
                   majorFeeds, runs, budget, runStart, history, evalIn, evalOut>>

\* os.makedirs(dirname): OSError when the directory exists by now, and the
\* handler `continue`s to the next record
MakeDirs(p) ==
    /\ p \in active
    /\ pc[p] = "mkdir"
    /\ IF cacheDir
       THEN /\ EndRecord(p, [loc[p] EXCEPT !.dirRace = TRUE], "drop", <<>>)
            /\ UNCHANGED cacheDir
       ELSE /\ cacheDir' = TRUE
            /\ pc' = [pc EXCEPT ![p] = "parse"]
            /\ UNCHANGED <<loc, last, acc>>
    /\ UNCHANGED <<adapter, configDir, config, cache, now, ticks, active, fileIdx, recIdx,
                   majorFeeds, runs, budget, runStart, history, evalIn, evalOut>>

\* feedName, feedType, feedDestination and the minor feeds
ParseRecord(p) ==
    /\ p \in active
    /\ pc[p] = "parse"
    /\ LET rec == CurRec(p)
           feedName == CleanName(rec.list_name.v)
           feedType == IF IsNull(rec.type) THEN <<"n", "o", "n", "e">>
                       ELSE CleanName(rec.type.v)
           mf == ParseMinorFeeds(rec.minorFeeds.v)
       IN  IF feedName = <<>> THEN EndRecord(p, loc[p], "drop", <<>>)
           ELSE IF mf.st # "ok" THEN EndRecord(p, loc[p], mf.st, <<>>)
           ELSE /\ loc' = [loc EXCEPT ![p] =
                             [@ EXCEPT !.feedName = feedName, !.feedType = feedType,
                                       !.feedDestination = Strip(rec.feedDestination.v),
                                       !.minorFeeds = mf.v]]
                /\ pc' = [pc EXCEPT ![p] = IF adapter = "rss" THEN "compile" ELSE "stale"]
                /\ UNCHANGED <<last, acc>>
    /\ UNCHANGED <<adapter, configDir, config, cacheDir, cache, now, ticks, active, fileIdx,
                   recIdx, majorFeeds, runs, budget, runStart, history, evalIn, evalOut>>

\* a caller that fetches whatever the evaluator answers
UseCacheNever(v) == FALSE

\* if not isCacheUpdateNeeded(cacheFilename=cacheFileName): useCache = True
UseCache(v) == Not(v)

CheckStale(p) ==
    /\ p \in active
    /\ pc[p] = "stale"
    /\ \E fault \in BOOLEAN :
         LET lm == modificationDate(loc[p].path)
             r == isCacheUpdateNeeded(lm, now, DefaultFrequency, fault)
         IN  /\ loc' = [loc EXCEPT ![p] =
                          [@ EXCEPT !.useCache = UseCache(r), !.stale = r,
                                    !.fault = fault /\ lm # NoTimestamp,
                                    !.fresh = /\ lm # NoTimestamp
                                              /\ ElapsedMinutes(now, lm) < DefaultFrequency]]
             /\ pc' = [pc EXCEPT ![p] = IF UseCache(r) THEN "read" ELSE "fetch"]
    /\ UNCHANGED <<adapter, configDir, config, cacheDir, cache, now, ticks, active, fileIdx,
                   recIdx, majorFeeds, runs, budget, last, acc, runStart, history, evalIn, evalOut>>

(***************************************************************************)
(* The external request.  A response is an exception (timeout, connection  *)
(* error), a status other than 200, a 200 whose body does not have the     *)
(* expected form, or a 200 carrying one of the service's lists.            *)
(***************************************************************************)
\* a body that is JSON but not a list of items (readTraktTV stores what
\* r.json() returns; the other two adapters raise on such a body, which is
\* the response kind "bad")
WrongShape == <<Num(5)>>

Responses(a) ==
    {[kind |-> "exception", list |-> <<>>], [kind |-> "status", list |-> <<>>],
     [kind |-> "bad", list |-> <<>>]}
      \cup {[kind |-> "ok", list |-> L] : L \in ServiceLists(a)}
      \cup (IF a = "trakt" THEN {[kind |-> "ok", list |-> WrongShape]} ELSE {})

\* library.getArtists answers one artist per page: @attr.totalPages and
\* the artists of the page asked for
TotalPages(L) == Len(L)
PageArtists(L, page) ==
    IF page <= Len(L) THEN <<[t |-> "dict", name |-> L[page]]>> ELSE <<>>

\* for artist in replies: artists.append(artist["name"])
ArtistNames(replies) == [i \in 1..Len(replies) |-> replies[i].name]

\* the favorite_authors loop: an author without a name is skipped, the
\* others are stripped and " & " replaced (not lower-cased)
RECURSIVE GoodreadsAuthors(_)
GoodreadsAuthors(q) ==
    IF q = <<>> THEN <<>>
    ELSE IF ~IsStr(Head(q)) \/ Head(q).v = <<>> THEN GoodreadsAuthors(Tail(q))
    ELSE <<Str(ReplaceAmp(Strip(Head(q).v)))>> \o GoodreadsAuthors(Tail(q))

\* a caller that caches whatever the fetch ended with
ShouldCacheAlways(httpResponse) == TRUE

\* if httpResponse == 200: updateCacheFile(...) else: useCache = True
ShouldCache(httpResponse) == httpResponse = HttpOK

\* the state after the request(s) of a record ended with httpResponse
AfterFetch(p, l) ==
    IF ShouldCache(l.httpResponse)
    THEN /\ loc' = [loc EXCEPT ![p] = l]
         /\ pc' = [pc EXCEPT ![p] = "write"]
         /\ UNCHANGED <<last, acc>>
    ELSE /\ loc' = [loc EXCEPT ![p] = [l EXCEPT !.useCache = TRUE]]
         /\ pc' = [pc EXCEPT ![p] = "read"]
         /\ UNCHANGED <<last, acc>>

\* readLastfmArtists: one iteration of `while currentPage <= maxPages`
FetchLastfm(p, resp) ==
    LET l == [loc[p] EXCEPT !.requests = Append(@, loc[p].currentPage)]
    IN  CASE resp.kind = "exception" ->
               AfterFetch(p, [l EXCEPT !.httpResponse = HttpNone, !.replies = <<>>,
                                       !.fetched = "failed"])
          [] resp.kind = "status" ->
               AfterFetch(p, [l EXCEPT !.httpResponse = HttpError, !.replies = <<>>,
                                       !.fetched = "failed"])
          [] resp.kind = "bad" ->
               \* r.json() or reply["artists"] raises: the per-file handler
               EndRecord(p, [l EXCEPT !.httpResponse = HttpOK, !.fetched = "malformed"],
                         "abort", <<>>)
          [] resp.kind = "ok" ->
               LET l2 == [l EXCEPT !.httpResponse = HttpOK,
                                   !.maxPages = TotalPages(resp.list),
                                   !.stated = Append(@, TotalPages(resp.list)),
                                   !.replies = @ \o PageArtists(resp.list, l.currentPage),
                                   !.currentPage = @ + 1]
               IN  IF l2.currentPage <= l2.maxPages
                   THEN /\ loc' = [loc EXCEPT ![p] = l2]
                        /\ UNCHANGED <<pc, last, acc>>
                   ELSE AfterFetch(p, [l2 EXCEPT !.results = ArtistNames(l2.replies),
                                                 !.fetched = "ok"])

\* readTraktTV / readGoodreads: the one request of a record
FetchOnce(p, resp) ==
    LET l == [loc[p] EXCEPT !.requests = Append(@, FirstPage)]
    IN  CASE resp.kind = "exception" ->
               AfterFetch(p, [l EXCEPT !.httpResponse = HttpNone, !.fetched = "failed"])
          [] resp.kind = "status" ->
               AfterFetch(p, [l EXCEPT !.httpResponse = HttpError, !.fetched = "failed"])
          [] resp.kind = "bad" ->
               \* r.json() / ET.fromstring / authors.iter raises inside the try
               AfterFetch(p, [l EXCEPT !.httpResponse = HttpNone, !.results = <<>>,
                                       !.fetched = "malformed"])
          [] resp.kind = "ok" ->
               AfterFetch(p, [l EXCEPT !.httpResponse = HttpOK,
                                       !.results = IF adapter = "goodreads"
                                                   THEN GoodreadsAuthors(resp.list)
                                                   ELSE resp.list,
                                       !.fetched = "ok"])

Fetch(p) ==
    /\ p \in active
    /\ pc[p] = "fetch"
    /\ \E resp \in Responses(adapter) :
         IF adapter = "lastfm" THEN FetchLastfm(p, resp) ELSE FetchOnce(p, resp)
    /\ UNCHANGED <<adapter, configDir, config, cacheDir, cache, now, ticks, active, fileIdx,
                   recIdx, majorFeeds, runs, budget, runStart, history, evalIn, evalOut>>

(***************************************************************************)
(* updateCacheFile: the staleness test, then open(cacheFilename, 'w') and  *)
(* write.  Two steps: another process may act between them.                *)
(***************************************************************************)
\* an update that writes whatever the evaluator answers
WriteNeededAlways(v) == TRUE

\* if isCacheUpdateNeeded(cacheFilename=cacheFilename, frequency=frequency)
WriteNeeded(v) == v = PyTrue

UpdateCacheCheck(p) ==
    /\ p \in active
    /\ pc[p] = "write"
    /\ \E fault \in BOOLEAN :
         LET r == isCacheUpdateNeeded(modificationDate(loc[p].path), now,
                                      DefaultFrequency, fault)
         IN  IF WriteNeeded(r)
             THEN /\ pc' = [pc EXCEPT ![p] = "write2"]
                  /\ UNCHANGED loc
             ELSE /\ pc' = [pc EXCEPT ![p] = "compile"]
                  /\ loc' = [loc EXCEPT ![p] =
                               [@ EXCEPT !.wrote = IF r = PyNone THEN "fault" ELSE "skipped"]]
    /\ UNCHANGED <<adapter, configDir, config, cacheDir, cache, now, ticks, active, fileIdx,
                   recIdx, majorFeeds, runs, budget, last, acc, runStart, history, evalIn, evalOut>>

\* a store that appends to what the file holds
CacheFileMerge(old, data, t, by) ==
    [data |-> IF old # <<>> /\ old[1].data.fmt = "json"
              THEN Dumps(Loads(old[1].data).v \o data) ELSE Dumps(data),
     mtime |-> t, by |-> by]

\* the username and api_key a record's request is made with
Credentials(rec) == <<rec.username, rec.api_key>>

\* the file after cache.write(data): old is the file before, as Snapshot;
\* by is a history field, the credentials of the fetch that is stored
CacheFile(old, data, t, by) == [data |-> Dumps(data), mtime |-> t, by |-> by]

\* ioerr: open or write raises (caught and logged by updateCacheFile)
UpdateCacheWrite(p) ==
    /\ p \in active
    /\ pc[p] = "write2"
    /\ \E ioerr \in BOOLEAN :
         LET path == loc[p].path
         IN  IF ioerr
             THEN /\ loc' = [loc EXCEPT ![p] = [@ EXCEPT !.wrote = "ioerror"]]
                  /\ UNCHANGED cache
             ELSE /\ loc' = [loc EXCEPT ![p] = [@ EXCEPT !.wrote = "written"]]
                  /\ cache' = [q \in DOMAIN cache \cup {path} |->
                                 IF q = path
                                 THEN CacheFile(Snapshot(path), loc[p].results, now,
                                                Credentials(CurRec(p)))
                                 ELSE cache[q]]
    /\ pc' = [pc EXCEPT ![p] = "compile"]
    /\ UNCHANGED <<adapter, configDir, config, cacheDir, now, ticks, active, fileIdx,
                   recIdx, majorFeeds, runs, budget, last, acc, runStart, history, evalIn, evalOut>>

(***************************************************************************)
(* if useCache: open(cacheFileName) ; json.load(cache).  Any exception     *)
(* `continue`s to the next record.                                         *)
(***************************************************************************)
ReadCache(p) ==
    /\ p \in active
    /\ pc[p] = "read"
    /\ LET path == loc[p].path
       IN  IF path \notin DOMAIN cache
           THEN EndRecord(p, [loc[p] EXCEPT !.read = "missing"], "drop", <<>>)
           ELSE LET d == Loads(cache[path].data)
                IN  IF ~d.ok
                    THEN EndRecord(p, [loc[p] EXCEPT !.read = "unreadable"], "drop", <<>>)
                    ELSE /\ loc' = [loc EXCEPT ![p] =
                                      [@ EXCEPT !.results = d.v, !.read = "ok",
                                                !.cacheBy = <<cache[path].by>>]]
                         /\ pc' = [pc EXCEPT ![p] = "compile"]
                         /\ UNCHANGED <<last, acc>>
    /\ UNCHANGED <<adapter, configDir, config, cacheDir, cache, now, ticks, active, fileIdx,
                   recIdx, majorFeeds, runs, budget, runStart, history, evalIn, evalOut>>

\* the unit stored in the mapping
MajorFeed(l, feedFilterList) ==
    [feedName |-> l.feedName, feedType |-> l.feedType,
     feedDestination |-> l.feedDestination, minorFeeds |-> l.minorFeeds,
     feedFilters |-> feedFilterList]

\* majorFeeds[key] = feed
Put(m, key, feed) == [k \in DOMAIN m \cup {key} |-> IF k = key THEN feed ELSE m[k]]

\* "Collect the feedFilters" and "Append the Config item to the dict"
CompileFilters(p) ==
    /\ p \in active
    /\ pc[p] = "compile"
    /\ LET rec == CurRec(p)
           l == loc[p]
           c == Compile(adapter, rec.filters, l.results, l.feedType, rec.like)
           feed == MajorFeed(l, c.v)
       IN  IF ~c.ok
           THEN /\ EndRecord(p, l, "drop", <<>>)
                /\ UNCHANGED majorFeeds
           ELSE /\ EndRecord(p, l, "entry", <<feed>>)
                /\ majorFeeds' = [majorFeeds EXCEPT ![p] =
                                    Put(@, FeedKey(adapter, CurFile(p).name, l.feedName), feed)]
    /\ UNCHANGED <<adapter, configDir, config, cacheDir, cache, now, ticks, active, fileIdx,
                   recIdx, runs, budget, runStart, history, evalIn, evalOut>>

\* return majorFeeds
Return(p) ==
    /\ p \in active
    /\ pc[p] = "return"
    /\ pc' = [pc EXCEPT ![p] = "idle"]
    /\ runs' = [runs EXCEPT ![p] = @ + 1]
    /\ history' = [history EXCEPT ![p] = Append(@,
                     [result |-> majorFeeds[p], cacheStart |-> runStart[p],
                      cacheEnd |-> cache, acc |-> acc[p]])]
    /\ last' = [last EXCEPT ![p] = <<>>]
    /\ acc' = [acc EXCEPT ![p] = InitAcc]
    /\ runStart' = [runStart EXCEPT ![p] = EmptyMap]
    /\ majorFeeds' = [majorFeeds EXCEPT ![p] = EmptyMap]
    /\ UNCHANGED <<adapter, configDir, budget, config, cacheDir, cache, now, ticks, active, fileIdx,
                   recIdx, loc, evalIn, evalOut>>

\* time passes between the runs (a run takes minutes, a tick is the
\* default frequency)
Tick ==
    /\ active # {}
    /\ \A p \in active : pc[p] = "idle"
    /\ ticks < MaxTicks
    /\ ticks' = ticks + 1
    /\ now' = now + TickSeconds
    /\ UNCHANGED <<adapter, configDir, config, cacheDir, cache, active, pc, fileIdx, recIdx, loc,
                   majorFeeds, runs, budget, last, acc, runStart, history, evalIn, evalOut>>

(***************************************************************************)
(* Initial states.  The cache directory is absent, or holds for every      *)
(* record of the configuration no file, a fresh or a stale file with one   *)
(* of the service's lists, or a file that json.load rejects.               *)
(***************************************************************************)
CacheProfiles == {"nodir", "empty", "fresh", "stale", "freshgarbage", "stalegarbage"}

\* the cache paths of the records of a configuration
ConfigPaths(a, cfg) ==
    IF a = "rss" THEN {}
    ELSE { CachePath(a, cfg[f].records[r], cfg[f].name) :
             <<f, r>> \in { x \in (1..Len(cfg)) \X (1..3) :
                              /\ x[2] <= Len(cfg[x[1]].records)
                              /\ cfg[x[1]].records[x[2]].t = "dict"
                              /\ ~IsNull(cfg[x[1]].records[x[2]].list_name) } }

\* what json.dumps stored for a list of the service
CachedList(a, L) == IF a = "goodreads" THEN GoodreadsAuthors(L) ELSE L

InitCache(a, cfg, profile, L, t) ==
    IF profile \in {"nodir", "empty"} THEN EmptyMap
    ELSE [q \in ConfigPaths(a, cfg) |->
            [data |-> IF profile \in {"fresh", "stale"} THEN Dumps(CachedList(a, L))
                      ELSE Garbage,
             mtime |-> IF profile \in {"fresh", "freshgarbage"} THEN t ELSE 0,
             by |-> <<>>]]

InitWith(procs, configs, n) ==
    /\ adapter \in Adapters
    /\ \/ configDir = TRUE /\ config \in configs
       \/ configDir = FALSE /\ config = <<>>
    /\ now = TickSeconds
    /\ ticks = 0
    /\ \E profile \in CacheProfiles :
         /\ cacheDir = (profile # "nodir")
         /\ IF adapter = "rss" THEN cache = EmptyMap
            ELSE \E L \in ServiceLists(adapter) :
                   cache = InitCache(adapter, config, profile, L, now)
    /\ active = procs
    /\ pc = [p \in Procs |-> "idle"]
    /\ fileIdx = [p \in Procs |-> 0]
    /\ recIdx = [p \in Procs |-> 0]
    /\ loc = [p \in Procs |-> InitLoc]
    /\ majorFeeds = [p \in Procs |-> EmptyMap]
    /\ runs = [p \in Procs |-> 0]
    /\ budget = n
    /\ last = [p \in Procs |-> <<>>]
    /\ acc = [p \in Procs |-> InitAcc]
    /\ runStart = [p \in Procs |-> EmptyMap]
    /\ history = [p \in Procs |-> <<>>]
    /\ evalIn = [lastModified |-> NoTimestamp, t |-> 0, frequency |-> 0, fault |-> FALSE]
    /\ evalOut = "unset"

\* one process, one run, every configuration
Init == InitWith({1}, Configs, 1)

Next ==
    \/ \E p \in Procs : StartRun(p)
    \/ \E p \in Procs : NextFile(p)
    \/ \E p \in Procs : BeginRecord(p)
    \/ \E p \in Procs : MakeDirs(p)
    \/ \E p \in Procs : ParseRecord(p)
    \/ \E p \in Procs : CheckStale(p)
    \/ \E p \in Procs : Fetch(p)
    \/ \E p \in Procs : UpdateCacheCheck(p)
    \/ \E p \in Procs : UpdateCacheWrite(p)
    \/ \E p \in Procs : ReadCache(p)
    \/ \E p \in Procs : CompileFilters(p)
    \/ \E p \in Procs : Return(p)
    \/ Tick

Spec == Init /\ [][Next]_vars

(***************************************************************************)
(* Successive runs of one process over single-record configurations.       *)
(***************************************************************************)
RunsConfigs ==
    { <<File("a.json", TRUE, TRUE, <<rTv>>)>>,
      <<File("a.json", TRUE, TRUE, <<rMovie>>)>> }

InitRuns == InitWith({1}, RunsConfigs, MaxRuns)

SpecRuns == InitRuns /\ [][Next]_vars

(***************************************************************************)
(* Two concurrent runs of the same adapter over the same configuration     *)
(* (the same cache paths), one run each.                                   *)
(***************************************************************************)
InitConc == InitWith(Procs, ConcConfigs, 1)

SpecConc == InitConc /\ [][Next]_vars

(***************************************************************************)
(* Runs that recur forever: when a process has finished its budget of      *)
(* runs, the caller starts over (the summaries of the finished runs are    *)
(* forgotten).  Time advances between runs again and again.                *)
(***************************************************************************)
RunAgain(p) ==
    /\ p \in active
    /\ pc[p] = "idle"
    /\ runs[p] = budget
    /\ runs' = [runs EXCEPT ![p] = 0]
    /\ history' = [history EXCEPT ![p] = <<>>]
    /\ UNCHANGED <<adapter, configDir, config, cacheDir, cache, now, ticks, active, pc,
                   fileIdx, recIdx, loc, majorFeeds, budget, last, acc, runStart,
                   evalIn, evalOut>>

\* time goes on after the clock has reached its bound: the origin of time
\* is moved forward by one tick, so every modification time moves back by
\* one tick (a file older than the origin is as old as the origin: it is
\* stale either way, an age of one tick being the default frequency)
Age ==
    /\ active # {}
    /\ \A p \in active : pc[p] = "idle"
    /\ ticks = MaxTicks
    /\ cache' = [q \in DOMAIN cache |->
                   [cache[q] EXCEPT !.mtime = IF @ >= TickSeconds THEN @ - TickSeconds ELSE 0]]
    /\ UNCHANGED <<adapter, configDir, config, cacheDir, now, ticks, active, pc, fileIdx,
                   recIdx, loc, majorFeeds, runs, budget, last, acc, runStart, history,
                   evalIn, evalOut>>

InitLive ==
    /\ InitWith({1}, RunsConfigs, MaxRuns)
    /\ configDir = TRUE
    /\ adapter # "rss"

NextLive ==
    \/ Next
    \/ \E p \in Procs : RunAgain(p)
    \/ Age

TimeStep == Tick \/ Age

SpecLive == InitLive /\ [][NextLive]_vars /\ SF_vars(TimeStep)

(***************************************************************************)
(* The staleness evaluator on its own: the arguments are drawn, the        *)
(* function is applied.                                                    *)
(***************************************************************************)
InitStale ==
    /\ evalIn \in [lastModified : {NoTimestamp} \cup 0..MaxNow, t : 0..MaxNow,
                   frequency : 1..MaxFreq, fault : BOOLEAN]
    /\ evalOut = "unset"
    /\ adapter = "rss"
    /\ configDir = TRUE
    /\ config = <<>>
    /\ cacheDir = FALSE
    /\ cache = EmptyMap
    /\ now = 0
    /\ ticks = 0
    /\ active = {}
    /\ pc = [p \in Procs |-> "idle"]
    /\ fileIdx = [p \in Procs |-> 0]
    /\ recIdx = [p \in Procs |-> 0]
    /\ loc = [p \in Procs |-> InitLoc]
    /\ majorFeeds = [p \in Procs |-> EmptyMap]
    /\ runs = [p \in Procs |-> 0]
    /\ budget = 0
    /\ last = [p \in Procs |-> <<>>]
    /\ acc = [p \in Procs |-> InitAcc]
    /\ runStart = [p \in Procs |-> EmptyMap]
    /\ history = [p \in Procs |-> <<>>]

Evaluate ==
    /\ evalOut = "unset"
    /\ evalOut' = isCacheUpdateNeeded(evalIn.lastModified, evalIn.t, evalIn.frequency,
                                      evalIn.fault)
    /\ UNCHANGED <<adapter, configDir, config, cacheDir, cache, now, ticks, active, pc, fileIdx,
                   recIdx, loc, majorFeeds, runs, budget, last, acc, runStart, history,
                   evalIn>>

NextStale == Evaluate

SpecStale == InitStale /\ [][NextStale]_vars

(***************************************************************************)
(* Properties of the staleness evaluator (SpecStale).                      *)
(***************************************************************************)
EvalDone == evalOut # "unset" /\ ~evalIn.fault
EvalMissing == evalIn.lastModified = NoTimestamp
\* seconds since the modification
EvalAge == evalIn.t - evalIn.lastModified
EvalPeriod == evalIn.frequency * SecondsPerMinute

\* C6, as stated: isCacheUpdateNeeded returns true for every cache file
\* modified before now - frequency minutes, false for every cache file
\* modified after now - frequency minutes, and true for every missing path.
C6_AsStated ==
    EvalDone =>
      /\ EvalMissing => evalOut = PyTrue
      /\ ~EvalMissing /\ EvalAge > EvalPeriod => evalOut = PyTrue
      /\ ~EvalMissing /\ EvalAge < EvalPeriod => evalOut = PyFalse

\* C6, amended: because the elapsed minutes are rounded up,
\* isCacheUpdateNeeded returns true for every cache file modified more than
\* frequency - 1 minutes before now (so also for every file older than
\* now - frequency minutes), false for every cache file modified at most
\* frequency - 2 minutes before now, and true for every missing path.
C6_Staleness ==
    EvalDone =>
      /\ EvalMissing => evalOut = PyTrue
      /\ ~EvalMissing /\ EvalAge > EvalPeriod - SecondsPerMinute => evalOut = PyTrue
      /\ ~EvalMissing /\ EvalAge <= EvalPeriod - 2 * SecondsPerMinute => evalOut = PyFalse

\* a file modified one second after now - frequency minutes is reported stale
C6_Witness ==
    /\ EvalDone
    /\ ~EvalMissing
    /\ EvalAge = EvalPeriod - 1
    /\ evalIn.frequency = MaxFreq
    /\ evalOut = PyTrue

(***************************************************************************)
(* Properties of one run (Spec).                                           *)
(***************************************************************************)
\* the history entries of the record iterations that ended last
LastEntries == { last[p][1] : p \in {q \in Procs : last[q] # <<>>} }

EntryRec(e) == config[e.file].records[e.rec]

\* C7: isCacheUpdateNeeded never raises, and when an internal fault occurs
\* while it evaluates staleness the caller receives true and attempts a
\* refresh instead of taking the use-cache branch.
C7_FaultMeansRefresh ==
    \A p \in Procs :
      loc[p].fault => loc[p].stale = PyTrue /\ ~loc[p].useCache

\* C1: when the cache is stale or missing, the fetch fails (exception,
\* timeout or non-200 status) and no cache file exists for the record, the
\* record still gets a registry entry, and with non-empty filter templates
\* that entry has feedFilters == [].
C1_EmptyOnFailure ==
    \A e \in LastEntries :
      e.fetched = "failed" /\ e.after = <<>> =>
        /\ e.outcome = "entry"
        /\ EntryRec(e).filters # <<>> => e.feed[1].feedFilters = <<>>

\* C2: a failed external fetch never changes the cache: for every record
\* whose fetch did not end with status 200 on all requested pages, the cache
\* file is the same after the record as before it, and the subjects the
\* record's entry is compiled from are exactly the previously cached list.
C2_FailedFetchKeepsCache ==
    \A e \in LastEntries :
      e.requests # <<>> /\ e.fetched # "ok" =>
        /\ e.after = e.before
        /\ e.wrote = "none"
        /\ e.outcome = "entry" =>
             /\ e.before # <<>>
             /\ Loads(e.before[1].data) = Done(e.subjects)

\* a music-service record whose first page succeeded and second page
\* failed, compiled from its cached list
C2_Witness ==
    \E e \in LastEntries :
      /\ adapter = "lastfm"
      /\ e.requests = <<1, 2>>
      /\ e.fetched = "failed"
      /\ e.outcome = "entry"
      /\ e.subjects # <<>>

\* a record that is not a mapping, has a non-string or unparsable
\* minTime / minRatio in a minor feed, or has a malformed filter rule
BadRecord(rec) ==
    \/ rec.t # "dict"
    \/ /\ ~IsNull(rec.minorFeeds)
       /\ ParseMinorFeeds(rec.minorFeeds.v).st # "ok"
    \/ \E i \in 1..Len(rec.filters) : ~TemplateRules(rec.filters[i]).ok

ValidRecord(a, rec) ==
    /\ rec.t = "dict"
    /\ ~BadRecord(rec)
    /\ HasBasicParts(a, rec)
    /\ CleanName(rec.list_name.v) # <<>>

\* C3: failures are isolated per record: in every descriptor file that is
\* read, every valid record that follows a bad record is still processed
\* by the run (its iteration is reached, which its appearing in the output
\* mapping requires).
C3_FailuresIsolated ==
    \A p \in Procs :
      pc[p] = "return" =>
        \A f \in 1..Len(config) :
          \A i, j \in 1..Len(config[f].records) :
            ( /\ config[f].json /\ config[f].parses
              /\ i < j
              /\ BadRecord(config[f].records[i])
              /\ ValidRecord(adapter, config[f].records[j]) )
            => <<f, j>> \in acc[p].processed

\* the entries of finished records that were inserted into the mapping
InsertedEntries == { e \in LastEntries : e.outcome = "entry" /\ adapter # "rss" }

\* what the record's cache file held when its iteration began
CachedBefore(e) == IF e.before = <<>> THEN Failed ELSE Loads(e.before[1].data)

IsSubject(feedType, item) ==
    CASE adapter = "trakt" ->
           /\ item.t = "dict"
           /\ \/ feedType = <<"t", "v">> /\ item.kind = "show"
              \/ feedType = <<"m", "o", "v", "i", "e">> /\ item.kind = "movie"
      [] OTHER -> TRUE

SubjectsOf(e) ==
    LET Test(item) == IsSubject(e.feed[1].feedType, item)
    IN  SelectSeq(e.subjects, Test)

\* a tracking movie that carries a year
HasYear(item) == adapter = "trakt" /\ item.kind = "movie" /\ ~IsNull(item.year)

\* rule list k of an entry belongs to template TemplateAt and subject
\* SubjectAt (templates outer, subjects inner)
TemplateAt(e, k) == EntryRec(e).filters[((k - 1) \div Len(SubjectsOf(e))) + 1]
SubjectAt(e, k) == SubjectsOf(e)[((k - 1) % Len(SubjectsOf(e))) + 1]

SubjectName(item) == IF adapter = "trakt" THEN item.title.v ELSE item.v

\* the match key of an adapter's subject rule
MatchKey(e) == IF adapter = "lastfm" THEN "artist" ELSE TitleMatchMethod(EntryRec(e).like)

\* the rules of a template's pairs, in template order
PairsAsRules(pairs, exclude) ==
    [i \in 1..Len(pairs) |-> Rule(pairs[i][1][1], pairs[i][1][2], exclude)]

\* C10: every rule list compiled for a subject begins with exactly one
\* non-exclude rule binding the match key (artist, title, titleLike) to
\* the normalized subject, followed by the template's exclude rules and
\* then its include rules, in template order, with nothing in between.
C10_RuleListShape ==
    \A e \in InsertedEntries :
      \A k \in 1..Len(e.feed[1].feedFilters) :
        e.feed[1].feedFilters[k] =
          <<Rule(MatchKey(e), Str(Normalize(SubjectName(SubjectAt(e, k)))), FALSE)>>
            \o PairsAsRules(TemplateAt(e, k).exclude, TRUE)
            \o PairsAsRules(TemplateAt(e, k).include, FALSE)

(***************************************************************************)
(* Properties of successive runs (SpecRuns).                               *)
(***************************************************************************)
\* every record of the configuration has a cache file that json.load accepts
WarmCache(c) ==
    \A q \in ConfigPaths(adapter, config) : q \in DOMAIN c /\ c[q].data.fmt = "json"

\* C4: with unchanged descriptor files, an existing readable cache for
\* every record and a network that fails every call, two successive runs
\* return identical mappings, and the cache files are identical before the
\* first run and after the second.
C4_IdempotentOffline ==
    \A p \in Procs :
      \A i \in 1..(Len(history[p]) - 1) :
        LET h1 == history[p][i]
            h2 == history[p][i + 1]
        IN  h1.acc.allFailed /\ h2.acc.allFailed /\ WarmCache(h1.cacheStart) =>
              /\ h1.result = h2.result
              /\ h1.cacheStart = h2.cacheEnd

\* two runs that both asked the network, were refused, and returned an entry
C4_Witness ==
    \E p \in Procs :
      /\ Len(history[p]) = 2
      /\ \A i \in 1..2 : /\ history[p][i].acc.allFailed
                         /\ ~history[p][i].acc.noRequest
                         /\ history[p][i].acc.entries > 0
      /\ WarmCache(history[p][1].cacheStart)

(***************************************************************************)
(* Properties of concurrent runs (SpecConc).                               *)
(***************************************************************************)
\* process p ends its updateCacheFile call in this step
WriteStepEnds(p) == pc[p] \in {"write", "write2"} /\ pc'[p] = "compile"

\* C8 (as stated): whenever a fetch ended with status 200, the cache file
\* holds exactly the fetched list once the write step has completed
\* (a write that the file system refused or a faulted evaluation apart)
C8_AsStated ==
    [][\A p \in Procs :
         WriteStepEnds(p) /\ loc'[p].wrote \notin {"ioerror", "fault"} =>
           /\ loc[p].path \in DOMAIN cache'
           /\ cache'[loc[p].path].data = Dumps(loc[p].results)]_vars

\* C8: after a fetch that ended with status 200, updateCacheFile evaluates
\* staleness again: when the file is missing or stale at that moment, the
\* write replaces the whole file by exactly the fetched list, whatever it
\* held; when the file is fresh at that moment (another run has just
\* written it), the file is left as it is, so of two concurrent runs that
\* both fetched for one path the first writer's list stays.
C8_GatedOverwrite ==
    [][\A p \in Procs :
         LET path == loc[p].path
             lm == modificationDate(path)
             fresh == lm # NoTimestamp /\ ElapsedMinutes(now, lm) < DefaultFrequency
         IN  /\ pc[p] = "write" /\ pc'[p] # "write" =>
                  /\ loc[p].fetched = "ok"
                  /\ fresh => pc'[p] = "compile" /\ loc'[p].wrote \in {"skipped", "fault"}
                  /\ pc'[p] = "compile" => cache' = cache
                  /\ pc'[p] = "write2" => ~fresh
             /\ pc[p] = "write2" /\ pc'[p] # "write2" /\ loc'[p].wrote = "written" =>
                  /\ path \in DOMAIN cache'
                  /\ cache'[path].data = Dumps(loc[p].results)
                  /\ cache'[path].mtime = now
                  /\ \A q \in DOMAIN cache' \ {path} : q \in DOMAIN cache /\ cache'[q] = cache[q]]_vars

\* two runs fetched different lists for one path; the second one's write
\* step ended without writing and the file holds the first one's list
C8_Witness ==
    \E p, q \in Procs :
      /\ p # q
      /\ pc[p] = "compile" /\ loc[p].fetched = "ok" /\ loc[p].wrote = "skipped"
      /\ loc[q].path = loc[p].path
      /\ loc[q].fetched = "ok" /\ loc[q].wrote = "written"
      /\ loc[q].results # loc[p].results
      /\ cache[loc[p].path].data = Dumps(loc[q].results)

(***************************************************************************)
(* Properties of the records of a run (Spec), continued.                   *)
(***************************************************************************)
\* the fields an adapter requires of a record
RequiredFields(a) ==
    IF a = "rss" THEN {"list_name", "feedDestination", "minorFeeds"}
    ELSE {"username", "api_key", "list_name", "type", "feedDestination", "minorFeeds"}

LacksField(a, rec) == rec.t = "dict" /\ \E f \in RequiredFields(a) : IsNull(rec[f])

\* the records of the configuration a key of the mapping can come from
KeySources(k) ==
    { x \in (1..Len(config)) \X (1..3) :
        /\ x[2] <= Len(config[x[1]].records)
        /\ config[x[1]].records[x[2]].t = "dict"
        /\ ~IsNull(config[x[1]].records[x[2]].list_name)
        /\ k = FeedKey(adapter, config[x[1]].name,
                       CleanName(config[x[1]].records[x[2]].list_name.v)) }

\* C11: a record that lacks a field its adapter requires contributes no
\* entry to the mapping, causes no staleness check, no external request
\* and no cache write; every key of the mapping comes from a processed
\* record that has every required field.
C11_DroppedRecord ==
    /\ \A e \in LastEntries :
         LacksField(adapter, EntryRec(e)) =>
           /\ e.outcome = "drop"
           /\ e.feed = <<>>
           /\ e.stale = "unchecked"
           /\ e.requests = <<>>
           /\ e.fetched = "none"
           /\ e.wrote = "none"
           /\ e.after = e.before
    /\ \A p \in Procs :
         \A k \in DOMAIN majorFeeds[p] :
           \E x \in KeySources(k) :
             /\ x \in acc[p].processed
             /\ ~LacksField(adapter, config[x[1]].records[x[2]])

\* a record without a required field dropped after an earlier record of
\* the file was inserted
C11_Witness ==
    \E p \in Procs :
      /\ last[p] # <<>>
      /\ LacksField(adapter, EntryRec(last[p][1]))
      /\ last[p][1].outcome = "drop"
      /\ last[p][1].rec > 1
      /\ DOMAIN majorFeeds[p] # {}

\* the records of the configuration, as <<file, record>> indices
AllRecords ==
    { x \in (1..Len(config)) \X (1..3) : x[2] <= Len(config[x[1]].records) }

\* process p is about to return and every record of the configuration
\* was inserted
AllInserted(p) == pc[p] = "return" /\ acc[p].entries = Cardinality(AllRecords)

\* two records of different files with one feedName, x processed first
SameNamePairs ==
    { xy \in AllRecords \X AllRecords :
        /\ xy[1][1] < xy[2][1]
        /\ CleanName(config[xy[1][1]].records[xy[1][2]].list_name.v)
             = CleanName(config[xy[2][1]].records[xy[2][2]].list_name.v) }

RecordAt(x) == config[x[1]].records[x[2]]
NameAt(x) == CleanName(RecordAt(x).list_name.v)
KeysNamed(p, name) == { k \in DOMAIN majorFeeds[p] : majorFeeds[p][k].feedName = name }

\* the entry under key k was built from record x
BuiltFrom(p, k, x) ==
    /\ k \in DOMAIN majorFeeds[p]
    /\ majorFeeds[p][k].minorFeeds = ParseMinorFeeds(RecordAt(x).minorFeeds.v).v
    /\ majorFeeds[p][k].feedType = CleanName(RecordAt(x).type.v)

\* C12 (as stated): two files with a valid record of one feedName leave
\* exactly one entry of that feedName in the mapping, built from the later
\* file and stored under that file's key
C12_AsStated ==
    \A p \in Procs :
      AllInserted(p) =>
        \A xy \in SameNamePairs :
          /\ Cardinality(KeysNamed(p, NameAt(xy[2]))) = 1
          /\ BuiltFrom(p, FeedKey(adapter, config[xy[2][1]].name, NameAt(xy[2])), xy[2])

\* C12: when two descriptor files each hold a valid record of one
\* feedName, the music adapter returns exactly one entry of that name,
\* under the bare feedName and built from the later-processed file; the
\* tracking, cataloging and raw-descriptor adapters return two entries of
\* that name, one under each file's composite key, each built from its
\* own file.
C12_SameNameTwoFiles ==
    \A p \in Procs :
      AllInserted(p) =>
        \A xy \in SameNamePairs :
          LET name == NameAt(xy[2])
          IN  IF adapter = "lastfm"
              THEN /\ KeysNamed(p, name) = {<<name>>}
                   /\ BuiltFrom(p, <<name>>, xy[2])
              ELSE /\ KeysNamed(p, name) =
                        {<<config[xy[1][1]].name, name>>, <<config[xy[2][1]].name, name>>}
                   /\ BuiltFrom(p, <<config[xy[1][1]].name, name>>, xy[1])
                   /\ BuiltFrom(p, <<config[xy[2][1]].name, name>>, xy[2])

\* a tracking run about to return two entries of one feedName
C12_Witness ==
    \E p \in Procs :
      /\ AllInserted(p)
      /\ adapter = "trakt"
      /\ \E xy \in SameNamePairs : Cardinality(KeysNamed(p, NameAt(xy[2]))) = 2

\* a mapping record with no filter template
NoTemplates(rec) == rec.t = "dict" /\ rec.filters = <<>>

\* C13: a valid record whose filter-template list is empty produces no
\* registry entry in the music, tracking and cataloging adapters, and in
\* the raw-descriptor adapter an entry whose feedFilters is the empty list.
C13_EmptyTemplates ==
    \A e \in LastEntries :
      NoTemplates(EntryRec(e)) /\ ValidRecord(adapter, EntryRec(e)) =>
        IF adapter = "rss"
        THEN e.outcome = "entry" /\ e.feed[1].feedFilters = <<>>
        ELSE e.outcome # "entry"

\* minor feed i of a record parses: url, minTime as integer, minRatio as
\* float, comparison
MinorFeedParses(rec, i) == ParseMinorFeed(rec.minorFeeds.v[i]).st = "ok"

\* some minor feed of the record fails to parse
BadMinorFeeds(rec) ==
    /\ rec.t = "dict"
    /\ ~IsNull(rec.minorFeeds)
    /\ \E i \in 1..Len(rec.minorFeeds.v) : ~MinorFeedParses(rec, i)

\* the minorFeeds of a registry entry are those the record declared
DeclaredMinorFeeds(feed, rec) ==
    /\ Len(feed.minorFeeds) = Len(rec.minorFeeds.v)
    /\ \A i \in 1..Len(feed.minorFeeds) :
         feed.minorFeeds[i] = ParseMinorFeed(rec.minorFeeds.v[i]).v

\* C14: minor feeds are all-or-nothing: a record one of whose minor feeds
\* fails to parse contributes no registry entry, and the minorFeeds of
\* every registry entry has exactly as many elements as its record
\* declared, in the same order.
C14_MinorFeedsAllOrNothing ==
    /\ \A e \in LastEntries :
         /\ BadMinorFeeds(EntryRec(e)) => e.outcome # "entry" /\ e.feed = <<>>
         /\ e.outcome = "entry" => DeclaredMinorFeeds(e.feed[1], EntryRec(e))
    /\ \A p \in Procs :
         \A k \in DOMAIN majorFeeds[p] :
           \E x \in KeySources(k) :
             /\ x \in acc[p].processed
             /\ ~BadMinorFeeds(RecordAt(x))
             /\ DeclaredMinorFeeds(majorFeeds[p][k], RecordAt(x))

\* a record with two minor feeds inserted after a record whose second
\* minor feed does not parse was left out
C14_Witness ==
    \E p \in Procs :
      /\ last[p] # <<>>
      /\ last[p][1].outcome = "entry"
      /\ Len(last[p][1].feed[1].minorFeeds) = 2
      /\ Cardinality(DOMAIN majorFeeds[p]) = 1
      /\ \E x \in acc[p].processed :
           /\ BadMinorFeeds(RecordAt(x))
           /\ MinorFeedParses(RecordAt(x), 1)

\* the record's request was answered with status 200 and a body that is
\* not valid JSON / XML or does not have the expected structure
MalformedPayload(e) ==
    \/ e.fetched = "malformed"
    \/ adapter = "trakt" /\ e.requests # <<>> /\ e.subjects = WrongShape

\* C15: a malformed payload is treated as a fetch failure in every
\* fetching adapter: the cache is not written, the adapter falls back to
\* the record's cache as for a non-200 status, and the remaining records
\* of the file are still processed.
C15_MalformedIsFailure ==
    \A e \in LastEntries :
      MalformedPayload(e) =>
        /\ e.wrote = "none"
        /\ e.after = e.before
        /\ e.outcome # "abort"
        /\ CachedBefore(e).ok => e.read = "ok" /\ e.subjects = CachedBefore(e).v

\* C16: no error is fatal to a run: whatever the state of the config
\* directory, of the cache directory and of the network, no ingest
\* function raises to its caller.
C16_NeverRaises == \A p \in Procs : pc[p] # "raised"

\* the record's cache file exists and json.load rejects it, or the write
\* after a successful fetch raised
CacheIOError(e) ==
    \/ e.before # <<>> /\ ~CachedBefore(e).ok
    \/ e.wrote = "ioerror"

\* C17: a cache I/O error is handled as a cache miss: a valid record whose
\* cache file does not parse (fresh or stale), or cannot be written after
\* a successful fetch, is still processed to a registry entry, built from
\* the fetched list when the fetch succeeded and from an empty subject
\* list otherwise.
C17_CacheErrorIsMiss ==
    \A e \in LastEntries :
      ( /\ adapter # "rss"
        /\ ValidRecord(adapter, EntryRec(e))
        /\ CacheIOError(e)
        /\ ~MalformedPayload(e) )
      => /\ e.outcome = "entry"
         /\ e.fetched # "ok" => e.subjects = <<>>

(***************************************************************************)
(* Properties of runs that recur forever (SpecLive).                       *)
(***************************************************************************)
\* something other than the API's answer went wrong for the record in
\* hand or for the record that ended last: a request that failed or was
\* answered with a malformed body, a fault inside the staleness evaluator,
\* a write that raised
TroubleIn(fetched, requests, results, fault, wrote) ==
    \/ fetched \in {"failed", "malformed"}
    \/ requests # <<>> /\ adapter = "trakt" /\ results = WrongShape
    \/ fault
    \/ wrote \in {"ioerror", "fault"}

Trouble ==
    \/ \E p \in Procs :
         TroubleIn(loc[p].fetched, loc[p].requests, loc[p].results, loc[p].fault,
                   loc[p].wrote)
    \/ \E e \in LastEntries :
         TroubleIn(e.fetched, e.requests, e.subjects, e.fault, e.wrote)

\* a run is started
RunStarts == \E p \in Procs : StartRun(p)

\* the record that ended last was fetched, its list written to the cache,
\* and its entry compiled from that list
Converged ==
    \E e \in LastEntries :
      /\ e.outcome = "entry"
      /\ e.fetched = "ok"
      /\ e.wrote = "written"
      /\ e.after # <<>>
      /\ e.after[1].data = Dumps(e.subjects)
      /\ e.after[1].mtime = now
      /\ e.feed[1].feedFilters =
           Compile(adapter, EntryRec(e).filters, e.subjects, e.feed[1].feedType,
                   EntryRec(e).like).v

\* the pages requested for a record: 1, 2, ... in order, each once; the
\* tracking and cataloging adapters request at most once
NoRetry(requests) ==
    /\ \A i \in 1..Len(requests) : requests[i] = i
    /\ adapter # "lastfm" => Len(requests) <= 1

\* after a failed fetch the cache file is what it was and does not look
\* fresh
FailedLooksStale(e) ==
    e.requests # <<>> /\ e.fetched # "ok" =>
      /\ e.after = e.before
      /\ e.after # <<>> =>
           ElapsedMinutes(now, e.after[1].mtime) >= DefaultFrequency

\* a staleness check on a missing or stale file that does not fault sends
\* the record to the fetch
StaleMeansFetch ==
    \A p \in Procs :
      ( /\ pc[p] = "stale" /\ pc'[p] # "stale"
        /\ ~loc'[p].fault
        /\ \/ loc[p].path \notin DOMAIN cache
           \/ ElapsedMinutes(now, modificationDate(loc[p].path)) >= DefaultFrequency )
      => pc'[p] = "fetch"

\* a request failed or was answered with a malformed body, for the record
\* in hand or for the record that ended last
ApiTrouble ==
    \/ \E p \in Procs :
         TroubleIn(loc[p].fetched, loc[p].requests, loc[p].results, FALSE, "none")
    \/ \E e \in LastEntries :
         TroubleIn(e.fetched, e.requests, e.subjects, FALSE, "none")

\* C18: eventual convergence across runs: with unchanged descriptors,
\* runs that recur forever and time that advances, if from some run onward
\* the API always answers successfully, then eventually a run writes the
\* API's list to the record's cache and returns an entry compiled from it.
C18_Convergence == []<><<RunStarts>>_vars /\ <>[]~ApiTrouble => <>Converged

\* What holds of C18: convergence when, from some point on, every request
\* is answered successfully and neither the staleness evaluator nor the
\* cache write fails; a failed fetch never makes the cache look fresh, a
\* check without fault of a file that does not look fresh leads to the
\* fetch, and no call is retried within one run.
C18_ConvergenceWithoutFaults ==
    /\ [](\A p \in Procs : NoRetry(loc[p].requests))
    /\ [](\A e \in LastEntries : NoRetry(e.requests) /\ FailedLooksStale(e))
    /\ [][StaleMeansFetch]_vars
    /\ ([]<><<RunStarts>>_vars /\ <>[]~Trouble => <>Converged)

\* a run that fetched, wrote and compiled the list after the run before
\* it had asked and been refused
C18_ConvergedAfterFailure ==
    /\ Converged
    /\ \E p \in Procs :
         /\ Len(history[p]) = 1
         /\ ~history[p][1].acc.noRequest
         /\ history[p][1].acc.allFailed
         /\ history[p][1].acc.entries = 1

(***************************************************************************)
(* C19: music-service pagination.                                          *)
(***************************************************************************)
\* the total-pages value stated by the first response of the record
FirstStated(l) == l.stated[1]

\* the page loop of the record is over
LoopOver(p) == pc[p] # "fetch"

\* C19: music-service pagination requests pages 1, 2, ..., N in increasing
\* order, each at most once, where N is the total-pages value stated by the
\* first response (later responses do not change N); the first non-200
\* status or request exception ends the requests immediately, and the loop
\* always terminates (no more than N requests are ever made).
C19_Pagination ==
    \A p \in Procs :
      adapter = "lastfm" /\ loc[p].requests # <<>> =>
        LET l == loc[p]
        IN  /\ \A i \in 1..Len(l.requests) : l.requests[i] = i
            /\ l.stated # <<>> => Len(l.requests) <= FirstStated(l)
            /\ LoopOver(p) /\ l.fetched = "ok" => Len(l.requests) = FirstStated(l)
            /\ l.fetched = "failed" =>
                 LoopOver(p) /\ Len(l.requests) = Len(l.stated) + 1

(***************************************************************************)
(* C20: the cache directory created by a concurrent run.                   *)
(***************************************************************************)
\* C20: a pre-existing-directory race is not an error: when the cache
\* directory is absent at an adapter's existence check and a concurrent run
\* creates it before this adapter's own create step, the record being
\* processed is not dropped and goes on to the staleness check, fetch and
\* registry insertion.
C20_DirectoryRace ==
    \A e \in LastEntries :
      e.dirRace => e.outcome # "drop" /\ e.stale # "unchecked"

(***************************************************************************)
(* C21: whose list a record is compiled from.                              *)
(***************************************************************************)
\* the record's list came from a cache file whose writer is known
ServedFromCache(e) == e.read = "ok" /\ e.cacheBy # <<>> /\ e.cacheBy[1] # <<>>

\* C21: cache ownership: within a run and across runs with unchanged
\* descriptors, the subject list used to compile a record's rules was
\* either fetched with that record's own username and api_key or read from
\* a cache file last written by a fetch made with those same credentials;
\* in particular two valid records of one descriptor file that share a
\* list_name but name different users never serve one another's cached
\* list.
C21_CacheOwnership ==
    \A e \in LastEntries :
      e.outcome = "entry" /\ ServedFromCache(e) =>
        e.cacheBy[1] = Credentials(EntryRec(e))

(***************************************************************************)
(* C22: a run that fetched and stored, then a run served from the cache.   *)
(***************************************************************************)
\* run h1 fetched and stored every record it processed, and run h2, which
\* started from the cache h1 left, made no request
StoredThenServed(h1, h2) ==
    /\ h1.acc.processed # {}
    /\ h1.acc.allStored
    /\ h2.acc.noRequest
    /\ h2.cacheStart = h1.cacheEnd

\* C22: fetch/cache round-trip: with unchanged descriptors, the mapping
\* returned by a run in which every record was fetched successfully and
\* written to cache equals the mapping returned by the immediately
\* following run in which every record is served from that fresh cache
\* without any network call.
C22_RoundTrip ==
    \A p \in Procs :
      \A i \in 1..(Len(history[p]) - 1) :
        StoredThenServed(history[p][i], history[p][i + 1]) =>
          history[p][i].result = history[p][i + 1].result

\* a run that stored its fetched list over an older cache file and
\* returned an entry, followed by a run that made no request and returned
\* an entry
C22_Witness ==
    \E p \in Procs :
      /\ Len(history[p]) = 2
      /\ StoredThenServed(history[p][1], history[p][2])
      /\ history[p][1].acc.entries > 0
      /\ history[p][2].acc.entries > 0
      /\ history[p][1].cacheStart # EmptyMap
      /\ history[p][1].cacheStart # history[p][1].cacheEnd

=============================================================================
